---- MODULE Spec2Model ----
(***************************************************************************)
(* A TLA+ model of the frame pipeline and the scene graph of the Vulkan    *)
(* iOS example framework:                                                  *)
(*   - world/model.rs     Model::from_nodes, Model::update_transform       *)
(*   - app/mod.rs         MainScene::update / MainScene::draw (partition   *)
(*                        of the object pool, the draw tick)               *)
(*   - renderer/frame.rs, renderer/swapchain.rs, renderer/depth_stencil.rs *)
(*                        RenderFrame and the targets it owns              *)
(*   - world/scene.rs     SceneManager                                     *)
(* Six specifications share the variables: SpecModel (the scene graph),    *)
(* SpecLocal (the local mutators of a Model), SpecPartition (the worker    *)
(* index ranges), SpecFrame (the draw tick), SpecScene (the scene stack)   *)
(* and SpecWork (the worker threads).  Each keeps the variables of the     *)
(* others at their idle values.                                            *)
(***************************************************************************)
EXTENDS Integers, Sequences, FiniteSets, TLC

VARIABLES
  \* ---- world/model.rs: one Model ----
  m_status,       \* "none" | "ok" (constructed) | "err" (from_nodes returned Err)
                  \* | "panic" (get_index panicked) | "overflow" (unbounded recursion)
  root_id,        \* Model.root_id
  nodes,          \* Model.nodes : sequence of ModelNode records
  id_index_map,   \* Model.id_index_map : id -> index into nodes
  last,           \* the last call made on the Model and how it ended
  \* ---- app/mod.rs: the partition of the object pool ----
  part,           \* the phase being dispatched and the ranges handed out so far
  \* ---- renderer/frame.rs: RenderFrame and one draw tick ----
  pc,             \* "unborn" | "idle" | "record" | "submit" | "failed" | "panic"
  recreate_swapchain,   \* RenderFrame.recreate_swapchain
  swapchain,            \* RenderFrame.swapchain (RenderSwapchain)
  depth_stencil,        \* RenderFrame.depth_stencil (RenderDepthStencil)
  framebuffers,         \* RenderFrame.framebuffers
  previous_frame_end,   \* RenderFrame.previous_frame_end
  surface,        \* the platform surface: its current extent and how the
                  \* present swapchain relates to it
  tick,           \* number of MainScene::draw calls started so far
  cur,            \* what the running (or last finished) tick did
  hist,           \* what earlier ticks did: the submissions seen by the queue
  \* ---- world/scene.rs: one SceneManager ----
  scene,          \* the stack, the registered scenes and what the last call did
  \* ---- app/mod.rs: the worker threads of MainScene::update / ::draw ----
  work            \* the threads spawned, the join loop and what it handed on

vars == <<m_status, root_id, nodes, id_index_map, last, part, pc,
          recreate_swapchain, swapchain, depth_stencil, framebuffers,
          previous_frame_end, surface, tick, cur, hist, scene, work>>

modelVars == <<m_status, root_id, nodes, id_index_map, last>>
frameVars == <<pc, recreate_swapchain, swapchain, depth_stencil, framebuffers,
               previous_frame_end, surface, tick, cur, hist>>

\* Option::None of an id, and of a Mat4x4.
None == "None"
NoneMat == <<>>

(***************************************************************************)
(* math/mat4.rs : Mat4x4, row major, m[r][c].  Entries are integers: every *)
(* matrix used below is exactly representable and so is every product.     *)
(***************************************************************************)
IDENTITY ==
  << <<1, 0, 0, 0>>, <<0, 1, 0, 0>>, <<0, 0, 1, 0>>, <<0, 0, 0, 1>> >>

\* translation matrices (the translation is the fourth row, r4c1..r4c3)
TransX == << <<1, 0, 0, 0>>, <<0, 1, 0, 0>>, <<0, 0, 1, 0>>, <<1, 0, 0, 1>> >>
TransY == << <<1, 0, 0, 0>>, <<0, 1, 0, 0>>, <<0, 0, 1, 0>>, <<0, 1, 0, 1>> >>
TransZ == << <<1, 0, 0, 0>>, <<0, 1, 0, 0>>, <<0, 0, 1, 0>>, <<0, 0, 1, 1>> >>
\* a quarter turn about the z axis
RotZ90 == << <<0, 1, 0, 0>>, <<-1, 0, 0, 0>>, <<0, 0, 1, 0>>, <<0, 0, 0, 1>> >>

mul_matrix4x4(self, rhs) ==
  [r \in 1..4 |-> [c \in 1..4 |->
      self[r][1] * rhs[1][c] + self[r][2] * rhs[2][c]
    + self[r][3] * rhs[3][c] + self[r][4] * rhs[4][c]]]

\* the translation part of a matrix (ModelNode::get_position reads r4c1..r4c3)
get_position(m) == <<m[4][1], m[4][2], m[4][3]>>

(***************************************************************************)
(* world/model.rs                                                          *)
(***************************************************************************)
\* Bounds of the scene-graph model.
MaxLinks == 2        \* at most this many sibling/child links are set in an input
MaxStackDepth == 5   \* recursion depth at which a walk is declared unbounded

NodeIds == {"R", "A", "B"}
Dangling == "X"                      \* an id that names no node
LinkTargets == {None} \cup NodeIds \cup {Dangling}
IdOrder == <<"R", "A", "B">>
LocalOf == [R |-> IDENTITY, A |-> TransX, B |-> TransY]
ParentMats == {IDENTITY, RotZ90}

\* the `parent` fields of an input: consistent, or with one dangling id
ParentChoices ==
  { [R |-> None, A |-> "R", B |-> "R"],
    [R |-> None, A |-> Dangling, B |-> "R"] }

LinkCount(sib, chi) ==
  Cardinality({i \in NodeIds : sib[i] # None}) + Cardinality({i \in NodeIds : chi[i] # None})

\* the node lists handed to from_nodes
NodeLists ==
  { [k \in 1..3 |->
       [id |-> IdOrder[k], transform |-> LocalOf[IdOrder[k]], world_matrix |-> TransZ,
        parent |-> par[IdOrder[k]], sibling |-> sib[IdOrder[k]], child |-> chi[IdOrder[k]]]] :
      <<par, sib, chi>> \in
        { t \in ParentChoices \X [NodeIds -> LinkTargets] \X [NodeIds -> LinkTargets] :
            LinkCount(t[2], t[3]) <= MaxLinks } }

\* HashMap::from_iter over (id, idx): a later entry with the same id wins
IndexMapOf(ns) ==
  [id \in {ns[k].id : k \in 1..Len(ns)} |->
     CHOOSE k \in 1..Len(ns) : ns[k].id = id /\ \A j \in 1..Len(ns) : ns[j].id = id => j <= k]

\* Model::get_index : None of the map is a panic
get_index_ok(map, id) == id \in DOMAIN map

ModelNode_update_transform_accumulate(node, parent_matrix) ==
  LET w == IF parent_matrix # NoneMat
           THEN mul_matrix4x4(node.world_matrix, parent_matrix)
           ELSE node.world_matrix
  IN  [node |-> [node EXCEPT !.world_matrix = w], world_matrix |-> w,
       sibling |-> node.sibling, child |-> node.child]

ModelNode_update_transform_swapped(node, parent_matrix) ==
  LET w == IF parent_matrix # NoneMat
           THEN mul_matrix4x4(parent_matrix, node.transform)
           ELSE node.world_matrix
  IN  [node |-> [node EXCEPT !.world_matrix = w], world_matrix |-> w,
       sibling |-> node.sibling, child |-> node.child]

ModelNode_update_transform_bake(node, parent_matrix) ==
  LET w == IF parent_matrix # NoneMat
           THEN mul_matrix4x4(node.transform, parent_matrix)
           ELSE node.world_matrix
  IN  [node |-> [node EXCEPT !.world_matrix = w, !.transform = w], world_matrix |-> w,
       sibling |-> node.sibling, child |-> node.child]

\* ModelNode::update_transform
ModelNode_update_transform(node, parent_matrix) ==
  LET w == IF parent_matrix # NoneMat
           THEN mul_matrix4x4(node.transform, parent_matrix)
           ELSE node.world_matrix
  IN  [node |-> [node EXCEPT !.world_matrix = w], world_matrix |-> w,
       sibling |-> node.sibling, child |-> node.child]

\* Model::update_transform : the recursive walk.  The result is the node
\* list, how the walk ended and the calls of ModelNode::update_transform in
\* the order they were made (the node, the parent matrix handed to it and
\* the world matrix it returned); a panic or an unbounded recursion ends
\* the process, whatever was written before.
RECURSIVE Model_update_transform(_, _, _, _, _)
Model_update_transform_child_first(ns, map, id, parent_matrix, depth) ==
  IF depth > MaxStackDepth THEN [status |-> "overflow", nodes |-> ns, visits |-> <<>>]
  ELSE IF ~get_index_ok(map, id) THEN [status |-> "panic", nodes |-> ns, visits |-> <<>>]
  ELSE
    LET idx == map[id]
        r   == ModelNode_update_transform(ns[idx], parent_matrix)
        ns1 == [ns EXCEPT ![idx] = r.node]
        v   == <<[id |-> id, parent |-> parent_matrix, world |-> r.world_matrix]>>
        c   == IF r.child # None
               THEN Model_update_transform(ns1, map, r.child, r.world_matrix, depth + 1)
               ELSE [status |-> "ok", nodes |-> ns1, visits |-> <<>>]
    IN  IF c.status # "ok" THEN [c EXCEPT !.visits = v \o @]
        ELSE IF r.sibling # None
             THEN LET sb == Model_update_transform(c.nodes, map, r.sibling, parent_matrix, depth + 1)
                  IN  [sb EXCEPT !.visits = v \o c.visits \o @]
             ELSE [c EXCEPT !.visits = v \o @]

Model_update_transform(ns, map, id, parent_matrix, depth) ==
  IF depth > MaxStackDepth THEN [status |-> "overflow", nodes |-> ns, visits |-> <<>>]
  ELSE IF ~get_index_ok(map, id) THEN [status |-> "panic", nodes |-> ns, visits |-> <<>>]
  ELSE
    LET idx == map[id]
        r   == ModelNode_update_transform(ns[idx], parent_matrix)
        ns1 == [ns EXCEPT ![idx] = r.node]
        v   == <<[id |-> id, parent |-> parent_matrix, world |-> r.world_matrix]>>
        sb  == IF r.sibling # None
               THEN Model_update_transform(ns1, map, r.sibling, parent_matrix, depth + 1)
               ELSE [status |-> "ok", nodes |-> ns1, visits |-> <<>>]
    IN  IF sb.status # "ok" THEN [sb EXCEPT !.visits = v \o @]
        ELSE IF r.child # None
             THEN LET c == Model_update_transform(sb.nodes, map, r.child, r.world_matrix, depth + 1)
                  IN  [c EXCEPT !.visits = v \o sb.visits \o @]
             ELSE [sb EXCEPT !.visits = v \o @]

\* ---- the shape of a node list ----
Resolves(ns, id) == id \in {ns[k].id : k \in 1..Len(ns)}
LinksOf(ns, id) ==
  IF Resolves(ns, id)
  THEN LET k == IndexMapOf(ns)[id] IN {ns[k].sibling, ns[k].child} \ {None}
  ELSE {}

RECURSIVE ReachN(_, _, _)
ReachN(ns, frontier, n) ==
  IF n = 0 THEN frontier
  ELSE ReachN(ns, frontier \cup UNION {LinksOf(ns, i) : i \in frontier}, n - 1)

\* the ids a walk started at id comes to (id itself included)
Reached(ns, id) == ReachN(ns, {id}, Len(ns))
HasCycle(ns) ==
  \E k \in 1..Len(ns) : ns[k].id \in ReachN(ns, LinksOf(ns, ns[k].id), Len(ns))
InDegree(ns, id) ==
  Cardinality({k \in 1..Len(ns) : ns[k].sibling = id})
  + Cardinality({k \in 1..Len(ns) : ns[k].child = id})
LinksResolve(ns) ==
  \A k \in 1..Len(ns) : \A x \in {ns[k].sibling, ns[k].child} : x = None \/ Resolves(ns, x)
Forest(ns) ==
  /\ LinksResolve(ns)
  /\ ~HasCycle(ns)
  /\ \A k \in 1..Len(ns) : InDegree(ns, ns[k].id) <= 1

\* the matrix node id is to be composed with in a walk of a forest started
\* at `start` with `p`: the world matrix of the node whose child it is, and
\* for a sibling the matrix its preceding sibling got
RECURSIVE ParentWorld(_, _, _, _)
ParentWorld(ns, start, p, id) ==
  IF id = start THEN p
  ELSE LET k == CHOOSE k \in 1..Len(ns) : ns[k].child = id \/ ns[k].sibling = id
       IN  IF ns[k].child = id THEN ns[k].world_matrix
           ELSE ParentWorld(ns, start, p, ns[k].id)

\* the matrix the world matrix of node id is composed on: the world matrix
\* of the node whose child it is, directly or along a chain of siblings
\* (NoneMat for a node that is nobody's child)
RECURSIVE ParentBasis(_, _)
ParentBasis(ns, id) ==
  IF \E k \in 1..Len(ns) : ns[k].child = id
  THEN ns[CHOOSE k \in 1..Len(ns) : ns[k].child = id].world_matrix
  ELSE IF \E k \in 1..Len(ns) : ns[k].sibling = id
  THEN ParentBasis(ns, ns[CHOOSE k \in 1..Len(ns) : ns[k].sibling = id].id)
  ELSE NoneMat

NoCall ==
  [op |-> "none", id |-> None, parent |-> NoneMat, status |-> "none", repeated |-> FALSE,
   visits |-> <<>>, mutations |-> 0]

ModelIdle ==
  /\ m_status = "none"
  /\ root_id = None
  /\ nodes = <<>>
  /\ id_index_map = <<>>
  /\ last = NoCall

\* Model::from_nodes : what the constructor accepts
from_nodes_accepts(ns, root) == root \in DOMAIN IndexMapOf(ns)

\* Model::from_nodes
FromNodes ==
  /\ m_status = "none"
  /\ \E ns \in NodeLists, root \in {"R", Dangling} :
       IF from_nodes_accepts(ns, root)
       THEN /\ m_status' = "ok"
            /\ root_id' = root
            /\ nodes' = ns
            /\ id_index_map' = IndexMapOf(ns)
            /\ last' = [NoCall EXCEPT !.op = "from_nodes", !.id = root, !.status = "ok"]
       ELSE /\ m_status' = "err"
            /\ last' = [NoCall EXCEPT !.op = "from_nodes", !.id = root, !.status = "err"]
            /\ UNCHANGED <<root_id, nodes, id_index_map>>

\* Model::update_transform(id, Some(parent_matrix)) called on a constructed Model
UpdateTransform ==
  /\ m_status = "ok"
  /\ \E id \in NodeIds, p \in ParentMats \cup {NoneMat} :
       LET r == Model_update_transform(nodes, id_index_map, id, p, 1)
       IN  /\ m_status' = r.status
           /\ nodes' = IF r.status = "ok" THEN r.nodes ELSE nodes
           /\ last' = [op |-> "update_transform", id |-> id, parent |-> p,
                       status |-> r.status,
                       repeated |-> /\ last.op = "update_transform"
                                    /\ last.id = id
                                    /\ last.parent = p,
                       visits |-> r.visits, mutations |-> last.mutations]
           /\ UNCHANGED <<root_id, id_index_map>>

\* Bound of the local mutators.
MaxMutations == 1    \* at most this many local mutator calls on one Model

\* the Vec3 and Quat arguments tried (a Quat stands as its rotation matrix)
Vec3s == {<<0, 1, 1>>}
Quats == {RotZ90}

\* ModelNode::set_position
set_position(m, v) == [m EXCEPT ![4] = <<v[1], v[2], v[3], m[4][4]>>]
\* ModelNode::set_quaternion : the upper 3x3 block becomes the rotation
set_quaternion(m, q) ==
  [r \in 1..4 |-> IF r <= 3 THEN <<q[r][1], q[r][2], q[r][3], m[r][4]>> ELSE m[r]]
\* ModelNode::translate_world
translate_world(m, v) ==
  [m EXCEPT ![4] = <<m[4][1] + v[1], m[4][2] + v[2], m[4][3] + v[3], m[4][4]>>]
\* ModelNode::translate_local : along the right, up and look vectors (rows
\* 1..3, unit vectors in every transform used here)
translate_local(m, v) ==
  translate_world(m, [c \in 1..3 |-> v[1] * m[1][c] + v[2] * m[2][c] + v[3] * m[3][c]])
\* ModelNode::rotate_from_quaternion (rotate_from_angle_axis calls it with
\* the quaternion of the angle and the axis)
rotate_from_quaternion(m, q) == mul_matrix4x4(q, m)

Mutators ==
  {"set_position", "set_quaternion", "translate_local", "translate_world",
   "rotate_from_quaternion", "rotate_from_angle_axis"}
mutated(op, m, v, q) ==
  CASE op = "set_position"    -> set_position(m, v)
    [] op = "set_quaternion"  -> set_quaternion(m, q)
    [] op = "translate_local" -> translate_local(m, v)
    [] op = "translate_world" -> translate_world(m, v)
    [] OTHER                  -> rotate_from_quaternion(m, q)

\* Model::set_position .. Model::rotate_from_quaternion : the node's own
\* mutator, then self.update_transform(id, None)
LocalMutator ==
  /\ m_status = "ok"
  /\ last.mutations < MaxMutations
  /\ \E op \in Mutators, id \in NodeIds, v \in Vec3s, q \in Quats :
       LET idx == id_index_map[id]
           ns0 == [nodes EXCEPT ![idx].transform = mutated(op, @, v, q)]
           r   == Model_update_transform(ns0, id_index_map, id, NoneMat, 1)
       IN  /\ m_status' = r.status
           /\ nodes' = IF r.status = "ok" THEN r.nodes ELSE nodes
           /\ last' = [op |-> op, id |-> id, parent |-> NoneMat, status |-> r.status,
                       repeated |-> FALSE, visits |-> r.visits,
                       mutations |-> last.mutations + 1]
           /\ UNCHANGED <<root_id, id_index_map>>

(***************************************************************************)
(* app/mod.rs : the partition of the object pool over the worker threads   *)
(* in MainScene::update and MainScene::draw                                *)
(***************************************************************************)
MAX_OBJECTS_NUM == 5000
\* Bounds of the partition model.
MaxPool == 6       \* the small pool sizes tried beside MAX_OBJECTS_NUM
MaxThreads == 4    \* the thread counts tried: 1..MaxThreads

PoolSizes == (1..MaxPool) \cup {MAX_OBJECTS_NUM}
ThreadCounts == 1..MaxThreads

object_range_rounded_up(S, T) == (S + T - 1) \div T

\* let object_range = MAX_OBJECTS_NUM / num_threads;
object_range(S, T) == S \div T

\* MainScene::update : for idx in object_range * i..object_range * (i + 1)
update_range(S, T, i) ==
  [lo |-> object_range(S, T) * i, hi |-> object_range(S, T) * (i + 1)]

\* MainScene::draw : for idx in object_range * i..object_range * (i + 1)
draw_range(S, T, i) ==
  [lo |-> object_range(S, T) * i, hi |-> object_range(S, T) * (i + 1)]

PartIdle == [phase |-> "none", S |-> 0, T |-> 1, update |-> <<>>, draw |-> <<>>]

\* MainScene::update : spawn worker i = number of workers spawned so far
SpawnUpdateWorker ==
  /\ part.phase = "update"
  /\ Len(part.update) < part.T
  /\ part' = [part EXCEPT !.update = Append(@, update_range(part.S, part.T, Len(@)))]

\* MainScene::update : every worker spawned and joined, the phase returns
JoinUpdate ==
  /\ part.phase = "update"
  /\ Len(part.update) = part.T
  /\ part' = [part EXCEPT !.phase = "draw"]

\* MainScene::draw : spawn worker i
SpawnDrawWorker ==
  /\ part.phase = "draw"
  /\ Len(part.draw) < part.T
  /\ part' = [part EXCEPT !.draw = Append(@, draw_range(part.S, part.T, Len(@)))]

\* MainScene::draw : every worker spawned and joined
JoinDraw ==
  /\ part.phase = "draw"
  /\ Len(part.draw) = part.T
  /\ part' = [part EXCEPT !.phase = "done"]

\* the workers of a phase whose range holds index idx
WorkersOf(ranges, idx) ==
  {w \in 1..Len(ranges) : ranges[w].lo <= idx /\ idx < ranges[w].hi}

(***************************************************************************)
(* renderer/frame.rs, renderer/swapchain.rs, renderer/depth_stencil.rs     *)
(* and the draw tick of app/mod.rs (MainScene::draw)                       *)
(***************************************************************************)
\* Bound of the frame model.
MaxTicks == 4      \* the number of draw ticks followed

NoneExt == <<>>                      \* Option::None of an extent
Extents == {<<1, 1>>, <<2, 2>>}      \* [width, height]
ImageCounts == {2, 3}                \* how many images the platform hands out
FitsIn(a, b) == a[1] <= b[1] /\ a[2] <= b[2]

NoToken == [kind |-> "none", tick |-> 0]      \* previous_frame_end = None
NowToken == [kind |-> "now", tick |-> 0]      \* now(device).boxed()
FrameToken(k) == [kind |-> "frame", tick |-> k]   \* the fence future of tick k

NoSwapchain == [current_frame |-> 0, views |-> 0, image_extent |-> NoneExt, attached |-> FALSE]
NoDepthStencil == [extent |-> NoneExt, attached |-> FALSE]

IdleTick ==
  [recreate |-> 0, rebuild |-> "none", platform |-> NoneExt, acquire |-> "none",
   framebuffer |-> -1, workers |-> "none", submit |-> "none", present |-> "none",
   result |-> "none"]
NoHist == [submits |-> <<>>, prev_acquire |-> "none", first_stale |-> 0]

FrameIdle ==
  /\ pc = "unborn"
  /\ recreate_swapchain = FALSE
  /\ swapchain = NoSwapchain
  /\ depth_stencil = NoDepthStencil
  /\ framebuffers = <<>>
  /\ previous_frame_end = NoToken
  /\ tick = 0
  /\ cur = IdleTick
  /\ hist = NoHist

\* surface_capabilities.current_extent.unwrap_or([width, height])
image_extent_of(current_extent, req) ==
  IF current_extent # NoneExt THEN current_extent ELSE req

\* create_vulkan_framebuffers : one framebuffer per swapchain image view, of
\* the extent asked for
create_vulkan_framebuffers(extent, sc) ==
  [k \in 1..sc.views |-> [view |-> k - 1, extent |-> extent]]

\* Framebuffer::new refuses an attachment smaller than the framebuffer
framebuffers_creatable(extent, sc, ds) ==
  FitsIn(extent, sc.image_extent) /\ FitsIn(extent, ds.extent)

\* RenderFrame::new.  Any of its steps may fail, and then nothing exists.
New ==
  /\ pc = "unborn"
  /\ \E req \in Extents, n \in ImageCounts, ok \in BOOLEAN :
       LET sc == [current_frame |-> 0, views |-> n,
                  image_extent |-> image_extent_of(surface.current_extent, req),
                  attached |-> TRUE]
           ds == [extent |-> req, attached |-> TRUE]
       IN  IF ok /\ framebuffers_creatable(sc.image_extent, sc, ds)
           THEN /\ pc' = "idle"
                /\ swapchain' = sc
                /\ depth_stencil' = ds
                /\ framebuffers' = create_vulkan_framebuffers(sc.image_extent, sc)
                /\ previous_frame_end' = NowToken
                /\ recreate_swapchain' = FALSE
                /\ cur' = [IdleTick EXCEPT !.rebuild = "ok", !.platform = surface.current_extent]
                /\ UNCHANGED <<surface, tick, hist>>
           ELSE /\ pc' = "failed"
                /\ UNCHANGED <<recreate_swapchain, swapchain, depth_stencil, framebuffers,
                               previous_frame_end, surface, tick, cur, hist>>

\* The platform: the surface is resized (or rotated) under a live swapchain.
SurfaceChanged ==
  /\ pc \in {"idle", "record", "submit"}
  /\ \E e \in Extents, st \in {"suboptimal", "out_of_date"} :
       surface' = [current_extent |-> IF surface.current_extent = NoneExt THEN NoneExt ELSE e,
                   state |-> st]
  /\ UNCHANGED <<pc, recreate_swapchain, swapchain, depth_stencil, framebuffers,
                 previous_frame_end, tick, cur, hist>>

\* The rebuild of wait_for_next_frame (if self.recreate_swapchain { ... }):
\* RenderSwapchain::recreate, RenderDepthStencil::recreate and
\* create_vulkan_framebuffers, each of which may fail and return early with
\* `?`.  Every outcome is the RenderFrame it leaves; `recreate` counts the
\* calls of RenderSwapchain::recreate.
Rebuild(req) ==
  LET keep == [status |-> "none", recreate |-> 0, flag |-> recreate_swapchain,
               swapchain |-> swapchain, depth_stencil |-> depth_stencil,
               framebuffers |-> framebuffers, surface |-> surface]
  IN
  IF ~recreate_swapchain THEN {keep}
  ELSE
    \* self.swapchain.recreate(width, height)? fails: nothing was assigned
    {[keep EXCEPT !.status = "swapchain_error", !.recreate = 1]}
    \cup
    UNION {
      LET sc == [current_frame |-> 0, views |-> n,
                 image_extent |-> image_extent_of(surface.current_extent, req),
                 attached |-> FALSE]
          sf == [surface EXCEPT !.state = "optimal"]
          ds == [extent |-> req, attached |-> FALSE]
          \* self.depth_stencil.recreate(width, height)? fails
          e1 == [keep EXCEPT !.status = "depth_error", !.recreate = 1,
                             !.swapchain = sc, !.surface = sf]
          \* create_vulkan_framebuffers(...)? fails
          e2 == [e1 EXCEPT !.status = "framebuffer_error", !.depth_stencil = ds]
          ok == [e2 EXCEPT !.status = "ok", !.flag = FALSE,
                           !.swapchain = [sc EXCEPT !.attached = TRUE],
                           !.depth_stencil = [ds EXCEPT !.attached = TRUE],
                           !.framebuffers = create_vulkan_framebuffers(req, sc)]
      IN  {e1, e2} \cup (IF framebuffers_creatable(req, sc, ds) THEN {ok} ELSE {})
      : n \in ImageCounts }

\* what swapchain::acquire_next_image can answer for the surface's state
PlatformAcquire(st) ==
  CASE st = "optimal"     -> {"ok", "error"}
    [] st = "suboptimal"  -> {"suboptimal", "error"}
    [] st = "out_of_date" -> {"out_of_date", "error"}

acquire_next_image_fatal(res) ==
  CASE res = "out_of_date" -> "Err"
    [] res = "error"       -> "Err"
    [] OTHER               -> "Some"

acquire_next_image_stale_as_image(res) ==
  CASE res = "error" -> "Err"
    [] OTHER         -> "Some"

\* RenderSwapchain::acquire_next_image : Ok(Some(..)), Ok(None) or Err
acquire_next_image(res) ==
  CASE res = "out_of_date" -> "None"
    [] res = "error"       -> "Err"
    [] OTHER               -> "Some"

\* wait_for_next_frame, the Ok(None) arm: the value of recreate_swapchain it leaves
flag_after_out_of_date(flag) == flag

flag_after_acquire_cleared(res) == FALSE

\* wait_for_next_frame, the Ok(Some(..)) arm: self.recreate_swapchain = suboptimal
flag_after_acquire(res) == res = "suboptimal"

FirstStale(h, stale, t) ==
  IF h.first_stale = 0 /\ stale THEN [h EXCEPT !.first_stale = t] ELSE h

\* MainScene::draw up to the return of RenderFrame::wait_for_next_frame:
\* cleanup_finished on the in-flight token, the rebuild when the flag is
\* set, then the acquisition.
DrawWaitForNextFrame ==
  /\ pc = "idle"
  /\ tick < MaxTicks
  /\ tick' = tick + 1
  /\ IF previous_frame_end = NoToken
     THEN \* self.previous_frame_end.as_mut().unwrap() panics
          /\ pc' = "panic"
          /\ cur' = [IdleTick EXCEPT !.result = "panic"]
          /\ hist' = [hist EXCEPT !.prev_acquire = cur.acquire]
          /\ UNCHANGED <<recreate_swapchain, swapchain, depth_stencil, framebuffers,
                         previous_frame_end, surface>>
     ELSE \E req \in Extents : \E rb \in Rebuild(req) :
          \E res \in PlatformAcquire(rb.surface.state) :
          \E idx \in 0..(IF rb.swapchain.views > 0 THEN rb.swapchain.views - 1 ELSE 0) :
            LET t0 == [IdleTick EXCEPT !.recreate = rb.recreate, !.rebuild = rb.status,
                         !.platform = IF rb.recreate = 1 THEN surface.current_extent ELSE NoneExt]
                h0 == [hist EXCEPT !.prev_acquire = cur.acquire]
                out == acquire_next_image(res)
            IN
            /\ previous_frame_end' = previous_frame_end
            /\ depth_stencil' = rb.depth_stencil
            /\ framebuffers' = rb.framebuffers
            /\ surface' = rb.surface
            /\ IF rb.status \notin {"none", "ok"}
               THEN \* the rebuild returned Err
                    /\ pc' = "idle"
                    /\ recreate_swapchain' = rb.flag
                    /\ swapchain' = rb.swapchain
                    /\ cur' = [t0 EXCEPT !.result = "Err"]
                    /\ hist' = h0
               ELSE
                 /\ hist' = FirstStale(h0, res \in {"out_of_date", "suboptimal"}, tick + 1)
                 /\ CASE out = "Err" ->
                           /\ pc' = "idle"
                           /\ recreate_swapchain' = rb.flag
                           /\ swapchain' = rb.swapchain
                           /\ cur' = [t0 EXCEPT !.acquire = res, !.result = "Err"]
                      [] out = "None" ->
                           \* Ok(None): MainScene::draw returns Ok(()) at once
                           /\ pc' = "idle"
                           /\ recreate_swapchain' = flag_after_out_of_date(rb.flag)
                           /\ swapchain' = rb.swapchain
                           /\ cur' = [t0 EXCEPT !.acquire = res, !.result = "Ok"]
                      [] out = "Some" ->
                           /\ recreate_swapchain' = flag_after_acquire(res)
                           /\ swapchain' = [rb.swapchain EXCEPT !.current_frame = idx]
                           /\ IF idx < Len(rb.framebuffers)
                              THEN /\ pc' = "record"
                                   /\ cur' = [t0 EXCEPT !.acquire = res, !.framebuffer = idx,
                                                        !.result = "running"]
                              ELSE \* self.framebuffers[image_index] is out of bounds
                                   /\ pc' = "panic"
                                   /\ cur' = [t0 EXCEPT !.acquire = res, !.result = "panic"]

\* MainScene::draw between the acquisition and the submission: the primary
\* command buffer, the render pass, the draw workers and their join, the
\* merge and the build.  Any of these steps may return Err.
DrawRecord ==
  /\ pc = "record"
  /\ \E ok \in BOOLEAN :
       IF ok
       THEN /\ pc' = "submit"
            /\ cur' = [cur EXCEPT !.workers = "ok"]
       ELSE /\ pc' = "idle"
            /\ cur' = [cur EXCEPT !.workers = "error", !.result = "Err"]
  /\ UNCHANGED <<recreate_swapchain, swapchain, depth_stencil, framebuffers,
                 previous_frame_end, surface, tick, hist>>

\* what then_swapchain_present(..).then_signal_fence_and_flush() can answer
PlatformPresent(st) ==
  IF st = "out_of_date" THEN {"out_of_date", "error"} ELSE {"ok", "error"}

flush_result_stale_as_ok(res) ==
  CASE res = "error" -> "Err"
    [] OTHER         -> "Ok"

\* the match on the flushed future: Ok, Err(FlushError::OutOfDate), Err(e)
flush_result(res) ==
  CASE res = "ok"          -> "Ok"
    [] res = "out_of_date" -> "OutOfDate"
    [] OTHER               -> "Err"

joined_token_now(token) == NowToken

\* self.previous_frame_end.take().unwrap().join(acquire_future): the token
\* the submission is chained after
joined_token(token) == token

\* RenderFrame::queue_submit_and_present
DrawQueueSubmitAndPresent ==
  /\ pc = "submit"
  /\ IF previous_frame_end = NoToken
     THEN \* take().unwrap() panics
          /\ pc' = "panic"
          /\ cur' = [cur EXCEPT !.result = "panic"]
          /\ UNCHANGED <<recreate_swapchain, previous_frame_end, hist>>
     ELSE \E exec_ok \in BOOLEAN : \E res \in PlatformPresent(surface.state) :
          IF ~exec_ok
          THEN \* then_execute(..) failed: the token was taken and is gone
               /\ pc' = "idle"
               /\ previous_frame_end' = NoToken
               /\ cur' = [cur EXCEPT !.submit = "exec_error", !.result = "Err"]
               /\ UNCHANGED <<recreate_swapchain, hist>>
          ELSE
            LET entry == [tick |-> tick, acquire_of |-> tick,
                          after |-> joined_token(previous_frame_end), present |-> res]
                h1 == [hist EXCEPT !.submits = Append(@, entry)]
                out == flush_result(res)
            IN
            /\ pc' = "idle"
            /\ hist' = FirstStale(h1, res = "out_of_date", tick)
            /\ CASE out = "Ok" ->
                      /\ previous_frame_end' = FrameToken(tick)
                      /\ cur' = [cur EXCEPT !.submit = "ok", !.present = res, !.result = "Ok"]
                      /\ UNCHANGED recreate_swapchain
                 [] out = "OutOfDate" ->
                      /\ recreate_swapchain' = TRUE
                      /\ previous_frame_end' = NowToken
                      /\ cur' = [cur EXCEPT !.submit = "ok", !.present = res, !.result = "Ok"]
                 [] out = "Err" ->
                      /\ previous_frame_end' = NoToken
                      /\ cur' = [cur EXCEPT !.submit = "ok", !.present = res, !.result = "Err"]
                      /\ UNCHANGED recreate_swapchain
  /\ UNCHANGED <<swapchain, depth_stencil, framebuffers, surface, tick>>

(***************************************************************************)
(* app/mod.rs : the worker threads of MainScene::update and                *)
(* MainScene::draw, the join loops and the merge, one step of one thread   *)
(* at a time.  A thread is [tick, phase, i, lo, pos, hi, holding, state,   *)
(* detached]: it works on objects[pos], holds that object's Mutex when     *)
(* `holding`, and is detached once its JoinHandle was dropped unjoined.    *)
(***************************************************************************)
\* Bounds of the worker model.
MaxWorkThreads == 2   \* get_num_threads() is drawn from 1..MaxWorkThreads
MaxWorkTicks == 2     \* the number of update+draw ticks followed
WorkPool == 2         \* the number of objects in the pool

WorkIdle ==
  [pc |-> "idle", T |-> 1, tick |-> 0, threads |-> {}, handles |-> <<>>,
   command_buffers |-> <<>>, joined |-> <<>>, worker_err |-> FALSE,
   merged |-> <<>>, submitted |-> 0,
   token |-> NowToken, token_before |-> NowToken, acquire |-> "none",
   result |-> "none"]

PhaseOf(pc_) == IF pc_ \in {"update_spawn", "update_join"} THEN "update" ELSE "draw"

\* thread::spawn(move || ...) of worker i: it starts at object_range * i
spawn_thread(w, i) ==
  [tick |-> w.tick, phase |-> PhaseOf(w.pc), i |-> i,
   lo |-> object_range(WorkPool, w.T) * i,
   pos |-> object_range(WorkPool, w.T) * i,
   hi |-> object_range(WorkPool, w.T) * (i + 1),
   holding |-> FALSE, state |-> "running", detached |-> FALSE]

\* the thread a handle of the running phase stands for
ThreadOf(w, i) ==
  CHOOSE t \in w.threads : t.tick = w.tick /\ t.phase = PhaseOf(w.pc) /\ t.i = i /\ ~t.detached

\* a thread whose closure has returned and that nobody will join is gone
Settle(ts) == {t \in ts : ~(t.detached /\ t.state # "running")}

\* MainScene::update is entered (SceneManager::frame_advanced calls update,
\* then draw); a caller may call again after an Err
WorkStartTick ==
  /\ work.pc = "idle"
  /\ work.tick < MaxWorkTicks
  /\ work' = [work EXCEPT !.pc = "update_spawn", !.tick = @ + 1, !.handles = <<>>,
                          !.command_buffers = <<>>, !.merged = <<>>,
                          !.joined = <<>>, !.worker_err = FALSE,
                          !.acquire = "none", !.result = "running",
                          !.token_before = work.token]

\* for i in 0..renderer.get_num_threads() { handles.push(thread::spawn(..)) }
WorkSpawn ==
  /\ work.pc \in {"update_spawn", "draw_spawn"}
  /\ Len(work.handles) < work.T
  /\ LET i == Len(work.handles)
         h == Append(work.handles, i)
     IN  work' = [work EXCEPT
                    !.threads = @ \cup {spawn_thread(work, i)},
                    !.handles = h,
                    !.pc = IF Len(h) < work.T THEN @
                           ELSE IF @ = "update_spawn" THEN "update_join" ELSE "draw_join"]

\* objects[idx].lock().unwrap() : the Mutex is taken when no thread holds it
WorkerLock ==
  \E t \in work.threads :
    /\ t.state = "running" /\ ~t.holding /\ t.pos < t.hi
    /\ ~\E u \in work.threads : u.holding /\ u.pos = t.pos
    /\ work' = [work EXCEPT !.threads = (@ \ {t}) \cup {[t EXCEPT !.holding = TRUE]}]

\* .update(..)? / .darw(..)? on the locked object; the guard is dropped at
\* the end of the statement, and an Err ends the closure
WorkerUnlock ==
  \E t \in work.threads : \E ok \in BOOLEAN :
    /\ t.state = "running" /\ t.holding
    /\ LET t1 == IF ok THEN [t EXCEPT !.holding = FALSE, !.pos = @ + 1]
                 ELSE [t EXCEPT !.holding = FALSE, !.state = "err"]
       IN  work' = [work EXCEPT !.threads = Settle((@ \ {t}) \cup {t1})]

\* the end of the closure: Ok(()) in update; in draw the secondary command
\* buffer is begun before the loop and built after it, and either may fail
WorkerReturn ==
  \E t \in work.threads : \E ok \in BOOLEAN :
    /\ t.state = "running" /\ ~t.holding
    /\ IF ok THEN t.pos >= t.hi
             ELSE t.phase = "draw" /\ (t.pos = t.lo \/ t.pos >= t.hi)
    /\ work' = [work EXCEPT !.threads =
                  Settle((@ \ {t}) \cup {[t EXCEPT !.state = IF ok THEN "ok" ELSE "err"]})]

next_handle_front(handles) == 1

\* while let Some(handle) = handles.pop() : the position in `handles` of the
\* handle joined next
next_handle(handles) == Len(handles)

join_result_ignored(state) == "ok"

\* handle.join().unwrap()? : what the closure returned
join_result(state) == state

\* one turn of the join loop: the thread of the handle popped has returned.
\* An Err returns from the phase at once and drops the handles left.
WorkJoin ==
  /\ work.pc \in {"update_join", "draw_join"}
  /\ work.handles # <<>>
  /\ LET k == next_handle(work.handles)
         i == work.handles[k]
         t == ThreadOf(work, i)
         rest == [j \in 1..(Len(work.handles) - 1) |->
                    IF j < k THEN work.handles[j] ELSE work.handles[j + 1]]
     IN  /\ t.state # "running"
         /\ IF join_result(t.state) = "err"
            THEN work' = [work EXCEPT
                            !.pc = "idle", !.result = "Err", !.handles = <<>>,
                            !.command_buffers = <<>>, !.worker_err = TRUE,
                            !.joined = Append(@, [i |-> i, state |-> t.state]),
                            !.threads = Settle({[u EXCEPT !.detached =
                                                   @ \/ (u.tick = work.tick /\ u.phase = t.phase)]
                                                : u \in work.threads \ {t}})]
            ELSE work' = [work EXCEPT
                            !.handles = rest,
                            !.threads = @ \ {t},
                            !.joined = Append(@, [i |-> i, state |-> t.state]),
                            !.command_buffers =
                              IF t.phase = "draw" THEN Append(@, i) ELSE @]

\* MainScene::update returns Ok(()) and MainScene::draw begins:
\* wait_for_next_frame, the primary command buffer and the render pass
WorkBeginDraw ==
  /\ work.pc = "update_join"
  /\ work.handles = <<>>
  /\ \E got \in {"Some", "None", "Err"} :
       work' = [work EXCEPT
                  !.acquire = got, !.joined = <<>>,
                  !.pc = IF got = "Some" THEN "draw_spawn" ELSE "idle",
                  !.result = CASE got = "Some" -> @
                               [] got = "None" -> "Ok"
                               [] got = "Err"  -> "Err"]

\* the rest of MainScene::draw once the join loop is through:
\* execute_commands_from_vec(command_buffers), end_render_pass, build and
\* renderer.queue_submit_and_present
WorkMergeSubmit ==
  /\ work.pc = "draw_join"
  /\ work.handles = <<>>
  /\ \E build_ok \in BOOLEAN, exec_ok \in BOOLEAN, res \in {"ok", "out_of_date", "error"} :
       IF ~build_ok
       THEN work' = [work EXCEPT !.pc = "idle", !.result = "Err",
                                 !.merged = work.command_buffers]
       ELSE IF ~exec_ok
       THEN work' = [work EXCEPT !.pc = "idle", !.result = "Err",
                                 !.merged = work.command_buffers, !.token = NoToken]
       ELSE work' = [work EXCEPT
                       !.pc = "idle",
                       !.merged = work.command_buffers,
                       !.submitted = work.tick,
                       !.token = CASE flush_result(res) = "Ok" -> FrameToken(work.tick)
                                   [] flush_result(res) = "OutOfDate" -> NowToken
                                   [] OTHER -> NoToken,
                       !.result = IF flush_result(res) = "Err" THEN "Err" ELSE "Ok"]

(***************************************************************************)
(* world/scene.rs : SceneManager.  A scene is opaque: what get_request     *)
(* answers and whether enter, exit, update and draw succeed are its own.   *)
(***************************************************************************)
\* Bounds of the scene model.
MaxSceneTicks == 3   \* the number of frame_advanced / pause / resume calls followed
MaxStack == 3        \* Push is followed up to this stack depth

Registered == {"S1", "S2"}           \* the ids of the (id, scene) pairs given to new
Unregistered == "U"                  \* an id with no scene
SceneIds == Registered \cup {Unregistered}

NoRequest == [kind |-> "None", id |-> None]
\* SceneRequest::Pop, Push { id }, Change { id } with id among `ids`
Requests(ids) ==
  {NoRequest, [kind |-> "Pop", id |-> None]}
  \cup {[kind |-> k, id |-> i] : k \in {"Push", "Change"}, i \in ids}

\* what the scenes' exit, enter, update and draw answer in one call (Ok or Err)
AllOk == [exit |-> TRUE, enter |-> TRUE, update |-> TRUE, draw |-> TRUE]

SceneIdle ==
  [status |-> "none", stack |-> <<>>, targets |-> {}, ticks |-> 0,
   op |-> "none", request |-> NoRequest, before |-> <<>>, calls |-> <<>>,
   oks |-> AllOk, result |-> "none"]

pop_front(stack) == SubSeq(stack, 2, Len(stack))
pop_nothing(stack) == stack
push_front(stack, id) == <<id>> \o stack

\* VecDeque::back, pop_back, push_back
back(stack) == stack[Len(stack)]
pop_back(stack) == SubSeq(stack, 1, Len(stack) - 1)
push_back(stack, id) == Append(stack, id)

\* SceneManager::mut_scene_node : nodes.get_mut(id).expect(..)
mut_scene_node_ok(id) == id \in Registered

Call(op, id) == [op |-> op, id |-> id]

\* SceneManager::new.  `targets` are the ids the scenes handed in can name
\* in a Push or Change request later on; new does not look at them.
SceneNew ==
  /\ scene.status = "none"
  /\ \E entry_point \in SceneIds, targets \in SUBSET SceneIds, enter_ok \in BOOLEAN :
       LET s0 == [SceneIdle EXCEPT !.op = "new", !.targets = targets] IN
       IF ~mut_scene_node_ok(entry_point)
       THEN scene' = [s0 EXCEPT !.status = "panic", !.result = "panic_unregistered"]
       ELSE IF ~enter_ok
       THEN scene' = [s0 EXCEPT !.status = "err", !.result = "Err",
                                !.calls = <<Call("enter", entry_point)>>]
       ELSE scene' = [s0 EXCEPT !.status = "ok", !.result = "Ok",
                                !.stack = <<entry_point>>,
                                !.calls = <<Call("enter", entry_point)>>]

\* frame_advanced, the match on the request: the stack and the calls made
\* when the transition is over, and how it ended ("Ok": go on to update)
apply_request(stack, request, exit_ok, enter_ok) ==
  LET cur_id == back(stack)
      got    == <<Call("get_request", cur_id)>>
  IN
  CASE request.kind = "None" ->
         [stack |-> stack, calls |-> got, result |-> "Ok"]
    [] request.kind = "Pop" ->
         IF ~exit_ok
         THEN [stack |-> stack, calls |-> Append(got, Call("exit", cur_id)), result |-> "Err"]
         ELSE LET st == pop_back(stack) IN
              \* self.mut_scene_node(&self.get_current_id())
              [stack |-> st, calls |-> Append(got, Call("exit", cur_id)),
               result |-> IF st = <<>> THEN "panic_empty"
                          ELSE IF ~mut_scene_node_ok(back(st)) THEN "panic_unregistered"
                          ELSE "Ok"]
    [] request.kind = "Push" ->
         LET st == push_back(stack, request.id) IN
         IF ~mut_scene_node_ok(request.id)
         THEN [stack |-> st, calls |-> got, result |-> "panic_unregistered"]
         ELSE [stack |-> st, calls |-> Append(got, Call("enter", request.id)),
               result |-> IF enter_ok THEN "Ok" ELSE "Err"]
    [] request.kind = "Change" ->
         IF ~exit_ok
         THEN [stack |-> stack, calls |-> Append(got, Call("exit", cur_id)), result |-> "Err"]
         ELSE LET st == push_back(pop_back(stack), request.id)
                  c1 == Append(got, Call("exit", cur_id))
              IN  IF ~mut_scene_node_ok(request.id)
                  THEN [stack |-> st, calls |-> c1, result |-> "panic_unregistered"]
                  ELSE [stack |-> st, calls |-> Append(c1, Call("enter", request.id)),
                        result |-> IF enter_ok THEN "Ok" ELSE "Err"]

update_and_draw_whatever(t, update_ok, draw_ok) ==
  IF t.result # "Ok" THEN t
  ELSE LET id == back(t.stack)
       IN  [t EXCEPT !.calls = t.calls \o <<Call("update", id), Call("draw", id)>>,
                     !.result = IF update_ok /\ draw_ok THEN "Ok" ELSE "Err"]

\* frame_advanced after the transition: curr_node.update(..)?; curr_node.draw(..)?
update_and_draw(t, update_ok, draw_ok) ==
  IF t.result # "Ok" THEN t
  ELSE LET id == back(t.stack)
           c1 == Append(t.calls, Call("update", id))
       IN  IF ~update_ok THEN [t EXCEPT !.calls = c1, !.result = "Err"]
           ELSE [t EXCEPT !.calls = Append(c1, Call("draw", id)),
                          !.result = IF draw_ok THEN "Ok" ELSE "Err"]

\* the requests the scene on top of the stack may answer
RequestsOf(sc) ==
  {r \in Requests(sc.targets) : r.kind = "Push" => Len(sc.stack) < MaxStack}

\* SceneManager::frame_advanced
SceneFrameAdvanced ==
  /\ scene.status = "ok"
  /\ scene.ticks < MaxSceneTicks
  /\ \E request \in RequestsOf(scene) :
     \E exit_ok \in BOOLEAN, enter_ok \in BOOLEAN, update_ok \in BOOLEAN, draw_ok \in BOOLEAN :
       LET r == update_and_draw(apply_request(scene.stack, request, exit_ok, enter_ok),
                                update_ok, draw_ok)
       IN  scene' = [scene EXCEPT
                       !.status = IF r.result \in {"Ok", "Err"} THEN "ok" ELSE "panic",
                       !.stack = r.stack, !.ticks = @ + 1, !.op = "frame_advanced",
                       !.request = request, !.before = scene.stack,
                       !.oks = [exit |-> exit_ok, enter |-> enter_ok,
                                update |-> update_ok, draw |-> draw_ok],
                       !.calls = r.calls, !.result = r.result]

\* SceneManager::pause and SceneManager::resume : forwarded to the current scene
ScenePauseResume ==
  /\ scene.status = "ok"
  /\ scene.ticks < MaxSceneTicks
  /\ \E op \in {"pause", "resume"}, ok \in BOOLEAN :
       scene' = [scene EXCEPT
                   !.ticks = @ + 1, !.op = op, !.request = NoRequest,
                   !.before = scene.stack, !.oks = AllOk,
                   !.calls = <<Call(op, back(scene.stack))>>,
                   !.result = IF ok THEN "Ok" ELSE "Err"]

(***************************************************************************)
(* The specifications                                                      *)
(***************************************************************************)
InitModel ==
  /\ ModelIdle
  /\ scene = SceneIdle
  /\ work = WorkIdle
  /\ part = PartIdle
  /\ FrameIdle
  /\ surface = [current_extent |-> NoneExt, state |-> "optimal"]

NextModel ==
  \/ FromNodes /\ UNCHANGED <<part, frameVars, scene, work>>
  \/ UpdateTransform /\ UNCHANGED <<part, frameVars, scene, work>>

SpecModel == InitModel /\ [][NextModel]_vars

\* the local mutators, on a Model that from_nodes has constructed from a
\* forest-shaped node list
InitLocal ==
  /\ m_status = "ok"
  /\ root_id = "R"
  /\ nodes \in {ns \in NodeLists :
                  /\ from_nodes_accepts(ns, "R")
                  /\ Forest(ns)
                  /\ \A k \in 1..Len(ns) : ns[k].parent # Dangling}
  /\ id_index_map = IndexMapOf(nodes)
  /\ last = [NoCall EXCEPT !.op = "from_nodes", !.id = "R", !.status = "ok"]
  /\ scene = SceneIdle
  /\ work = WorkIdle
  /\ part = PartIdle
  /\ FrameIdle
  /\ surface = [current_extent |-> NoneExt, state |-> "optimal"]

NextLocal ==
  \/ UpdateTransform /\ UNCHANGED <<part, frameVars, scene, work>>
  \/ LocalMutator /\ UNCHANGED <<part, frameVars, scene, work>>

SpecLocal == InitLocal /\ [][NextLocal]_vars

InitPartition ==
  /\ ModelIdle
  /\ scene = SceneIdle
  /\ work = WorkIdle
  /\ FrameIdle
  /\ surface = [current_extent |-> NoneExt, state |-> "optimal"]
  /\ \E S \in PoolSizes, T \in ThreadCounts :
       part = [PartIdle EXCEPT !.phase = "update", !.S = S, !.T = T]

NextPartition ==
  \/ SpawnUpdateWorker /\ UNCHANGED <<modelVars, frameVars, scene, work>>
  \/ JoinUpdate /\ UNCHANGED <<modelVars, frameVars, scene, work>>
  \/ SpawnDrawWorker /\ UNCHANGED <<modelVars, frameVars, scene, work>>
  \/ JoinDraw /\ UNCHANGED <<modelVars, frameVars, scene, work>>

SpecPartition == InitPartition /\ [][NextPartition]_vars

InitFrame ==
  /\ ModelIdle
  /\ scene = SceneIdle
  /\ work = WorkIdle
  /\ part = PartIdle
  /\ FrameIdle
  /\ \E e \in {NoneExt} \cup Extents :
       surface = [current_extent |-> e, state |-> "optimal"]

NextFrame ==
  \/ New /\ UNCHANGED <<modelVars, part, scene, work>>
  \/ SurfaceChanged /\ UNCHANGED <<modelVars, part, scene, work>>
  \/ DrawWaitForNextFrame /\ UNCHANGED <<modelVars, part, scene, work>>
  \/ DrawRecord /\ UNCHANGED <<modelVars, part, scene, work>>
  \/ DrawQueueSubmitAndPresent /\ UNCHANGED <<modelVars, part, scene, work>>

SpecFrame == InitFrame /\ [][NextFrame]_vars

InitScene ==
  /\ ModelIdle
  /\ part = PartIdle
  /\ FrameIdle
  /\ surface = [current_extent |-> NoneExt, state |-> "optimal"]
  /\ scene = SceneIdle
  /\ work = WorkIdle

NextScene ==
  \/ SceneNew /\ UNCHANGED <<modelVars, part, frameVars, work>>
  \/ SceneFrameAdvanced /\ UNCHANGED <<modelVars, part, frameVars, work>>
  \/ ScenePauseResume /\ UNCHANGED <<modelVars, part, frameVars, work>>

SpecScene == InitScene /\ [][NextScene]_vars

InitWork ==
  /\ ModelIdle
  /\ part = PartIdle
  /\ FrameIdle
  /\ surface = [current_extent |-> NoneExt, state |-> "optimal"]
  /\ scene = SceneIdle
  /\ \E T \in 1..MaxWorkThreads : work = [WorkIdle EXCEPT !.T = T]

NextWork ==
  \/ WorkStartTick /\ UNCHANGED <<modelVars, part, frameVars, scene>>
  \/ WorkSpawn /\ UNCHANGED <<modelVars, part, frameVars, scene>>
  \/ WorkerLock /\ UNCHANGED <<modelVars, part, frameVars, scene>>
  \/ WorkerUnlock /\ UNCHANGED <<modelVars, part, frameVars, scene>>
  \/ WorkerReturn /\ UNCHANGED <<modelVars, part, frameVars, scene>>
  \/ WorkJoin /\ UNCHANGED <<modelVars, part, frameVars, scene>>
  \/ WorkBeginDraw /\ UNCHANGED <<modelVars, part, frameVars, scene>>
  \/ WorkMergeSubmit /\ UNCHANGED <<modelVars, part, frameVars, scene>>

SpecWork == InitWork /\ [][NextWork]_vars

Spec == SpecFrame

(***************************************************************************)
(* Properties                                                              *)
(***************************************************************************)
LiveFrame == pc \in {"idle", "record", "submit"}
TickDone == pc = "idle" /\ cur.result \in {"Ok", "Err"}

\* ---- the draw tick ----

\* C1: staleness recovery.  If ticks 1 and 2 submit and present and the
\* acquisition of tick 3 is the first to report out-of-date, then tick 4,
\* when none of its steps fails, calls
\* recreate exactly once before it acquires, obtains a framebuffer and
\* submits; and no tick up to the first stale one performs a recreate.
C1_StalenessRecovery ==
  /\ (hist.first_stale = 0 \/ hist.first_stale = tick) => cur.recreate = 0
  /\ (/\ tick = 4
      /\ Len(hist.submits) = 2
      /\ \A j \in 1..2 : hist.submits[j].tick = j /\ hist.submits[j].present = "ok"
      /\ hist.first_stale = 3
      /\ hist.prev_acquire = "out_of_date"
      /\ TickDone
      /\ cur.result = "Ok")
     => (/\ cur.recreate = 1
         /\ cur.rebuild = "ok"
         /\ cur.framebuffer >= 0
         /\ cur.submit = "ok")

\* C2: frame-order monotonicity.  The submissions seen by the queue are in
\* strictly increasing tick order, at most one per tick and one in every
\* tick that acquires and presents without staleness or error; each is
\* joined with the acquisition of its own tick and chained after the token
\* the previous submission left (its fence future, `now` before the first
\* tick and after an out-of-date present); while a tick is recording, every
\* submission logged belongs to an earlier tick.
C2_FrameOrderMonotonic ==
  LET s == hist.submits IN
  /\ \A j \in 1..Len(s) : s[j].acquire_of = s[j].tick /\ s[j].tick <= tick
  /\ \A j \in 1..(Len(s) - 1) : s[j].tick < s[j + 1].tick
  /\ Len(s) > 0 => s[1].after = NowToken
  /\ \A j \in 1..(Len(s) - 1) :
       s[j + 1].after = IF s[j].present = "ok" THEN FrameToken(s[j].tick) ELSE NowToken
  /\ (TickDone /\ cur.result = "Ok" /\ cur.acquire = "ok" /\ cur.present = "ok")
       => (Len(s) > 0 /\ s[Len(s)].tick = tick)
  /\ pc \in {"record", "submit"} => \A j \in 1..Len(s) : s[j].tick < tick

\* three ticks in a row submitted and presented without staleness
C2_Witness ==
  /\ Len(hist.submits) = 3
  /\ \A j \in 1..3 : hist.submits[j].tick = j /\ hist.submits[j].present = "ok"
  /\ hist.first_stale = 0

\* C8: staleness is never fatal.  A tick in which the acquisition or the
\* present reported out-of-date returns Ok; a tick that returns Err had a
\* failing step that is not a staleness report.
C8_StalenessNeverFatal ==
  TickDone =>
    /\ (cur.acquire = "out_of_date" \/ cur.present = "out_of_date") => cur.result = "Ok"
    /\ cur.result = "Err" =>
         \/ cur.rebuild \in {"swapchain_error", "depth_error", "framebuffer_error"}
         \/ cur.acquire = "error"
         \/ cur.workers = "error"
         \/ cur.submit = "exec_error"
         \/ cur.present = "error"

\* a tick whose acquisition reported out-of-date after an earlier tick whose
\* present did
C8_Witness ==
  /\ TickDone
  /\ cur.acquire = "out_of_date"
  /\ cur.result = "Ok"
  /\ Len(hist.submits) > 0
  /\ hist.submits[Len(hist.submits)].present = "out_of_date"

\* C9: framebuffer/image correspondence.  While the RenderFrame lives, there
\* are as many framebuffers as swapchain image views and the stored
\* current_frame (every index acquired) indexes a framebuffer.
C9_FramebufferImageCorrespondence ==
  /\ LiveFrame => /\ Len(framebuffers) = swapchain.views
                  /\ swapchain.current_frame < Len(framebuffers)
  /\ ~(pc = "panic" /\ cur.acquire \in {"ok", "suboptimal"})

\* C10: uniform extent, the platform's extent winning.  After new and after
\* a successful rebuild the swapchain images, the depth-stencil target and
\* every framebuffer have one extent, the one the platform reported when it
\* reported one.
C10_UniformExtent ==
  (LiveFrame /\ cur.rebuild = "ok") =>
    /\ depth_stencil.extent = swapchain.image_extent
    /\ \A k \in 1..Len(framebuffers) : framebuffers[k].extent = swapchain.image_extent
    /\ cur.platform # NoneExt => swapchain.image_extent = cur.platform

\* C14: in-flight token invariant.  Whenever a tick can start the
\* RenderFrame holds an in-flight token, and neither the cleanup of
\* wait_for_next_frame nor the take() of queue_submit_and_present finds
\* previous_frame_end absent.
C14_InFlightTokenLive ==
  /\ pc = "idle" => previous_frame_end # NoToken
  /\ ~(pc = "panic" /\ previous_frame_end = NoToken)

\* C15: skip-frame policy.  A tick whose acquisition reports out-of-date
\* returns Ok with no worker spawned and nothing recorded, submitted or
\* presented; its acquire step leaves the in-flight token as it was and the
\* swapchain, the depth-stencil target and the framebuffers as the tick's
\* rebuild step (if it ran) left them.
C15_SkipFrame ==
  [][(tick' = tick + 1 /\ cur'.acquire = "out_of_date")
     => (/\ pc' = "idle"
         /\ cur'.result = "Ok"
         /\ cur'.framebuffer = -1
         /\ cur'.workers = "none" /\ cur'.submit = "none" /\ cur'.present = "none"
         /\ hist'.submits = hist.submits
         /\ previous_frame_end' = previous_frame_end
         /\ \E req \in Extents : \E rb \in Rebuild(req) :
              /\ rb.status \in {"none", "ok"}
              /\ swapchain' = rb.swapchain
              /\ depth_stencil' = rb.depth_stencil
              /\ framebuffers' = rb.framebuffers)]_vars

\* a tick skipped on an out-of-date acquisition, after a tick that presented
C15_Witness ==
  /\ TickDone
  /\ cur.acquire = "out_of_date"
  /\ cur.rebuild = "none"
  /\ Len(hist.submits) = 1
  /\ hist.submits[1].present = "ok"
  /\ previous_frame_end = FrameToken(1)
  /\ tick = 2

\* C16: present-time staleness.  An out-of-date present sets the stale flag
\* and leaves a `now` token; the tick after it calls recreate exactly once
\* and, the rebuild done, goes on to acquire with the flag cleared (the flag
\* it leaves is the one the acquisition sets); a tick that starts with the
\* flag not set performs no recreate.
C16_PresentStaleness ==
  [][/\ (pc = "submit" /\ cur'.present = "out_of_date")
          => (/\ recreate_swapchain'
              /\ previous_frame_end' = NowToken
              /\ cur'.result = "Ok")
     /\ (tick' = tick + 1 /\ cur.present = "out_of_date")
          => (/\ cur'.recreate = 1
              /\ cur'.rebuild # "none"
              /\ cur'.rebuild = "ok" =>
                   /\ cur'.acquire # "none"
                   /\ recreate_swapchain' = (cur'.acquire = "suboptimal"))
     /\ (tick' = tick + 1 /\ ~recreate_swapchain)
          => (cur'.recreate = 0 /\ cur'.rebuild = "none")
    ]_vars

\* the tick after an out-of-date present has rebuilt and acquired an image
C16_Witness ==
  /\ pc = "record"
  /\ cur.recreate = 1
  /\ cur.rebuild = "ok"
  /\ cur.acquire = "ok"
  /\ ~recreate_swapchain
  /\ Len(hist.submits) > 0
  /\ hist.submits[Len(hist.submits)].present = "out_of_date"
  /\ hist.submits[Len(hist.submits)].tick = tick - 1

\* C17: atomic replacement.  The framebuffers in use are always built on
\* the swapchain images and the depth-stencil target in use: no state has a
\* replaced swapchain or depth-stencil target beside framebuffers built on
\* the ones before.
C17_AtomicReplacement ==
  LiveFrame => (swapchain.attached /\ depth_stencil.attached)

\* C30: suboptimal acquisition.  When wait_for_next_frame returns an image,
\* the framebuffer it returns is the one of the acquired index and the stale
\* flag is set exactly when the acquisition was suboptimal; a suboptimal
\* tick goes on to record and, when no later step fails, is submitted, and
\* the flag stays set to its end; the tick after a suboptimal acquisition
\* calls recreate once, before it acquires.
C30_SuboptimalAcquisition ==
  /\ pc \in {"record", "submit"} =>
       /\ cur.acquire \in {"ok", "suboptimal"}
       /\ cur.framebuffer = swapchain.current_frame
       /\ cur.framebuffer \in 0..(Len(framebuffers) - 1)
       /\ framebuffers[cur.framebuffer + 1].view = cur.framebuffer
       /\ recreate_swapchain = (cur.acquire = "suboptimal")
  /\ (LiveFrame /\ cur.acquire = "suboptimal") => recreate_swapchain
  /\ (TickDone /\ cur.acquire = "suboptimal" /\ cur.result = "Ok") =>
       /\ cur.workers = "ok" /\ cur.submit = "ok"
       /\ Len(hist.submits) > 0 /\ hist.submits[Len(hist.submits)].tick = tick
  /\ (hist.prev_acquire = "suboptimal" /\ ~(pc = "panic" /\ cur.acquire = "none")) =>
       /\ cur.recreate = 1
       /\ cur.rebuild # "none"
       /\ cur.rebuild = "ok" => cur.acquire # "none"

\* a suboptimal tick was submitted and the tick after it has rebuilt the
\* swapchain and acquired an image
C30_Witness ==
  /\ pc = "record"
  /\ hist.prev_acquire = "suboptimal"
  /\ Len(hist.submits) > 0
  /\ hist.submits[Len(hist.submits)].tick = tick - 1
  /\ hist.submits[Len(hist.submits)].present = "ok"
  /\ cur.recreate = 1 /\ cur.rebuild = "ok" /\ cur.acquire = "ok"
  /\ ~recreate_swapchain

\* ---- the worker threads ----

\* C12 as stated: the partial command lists are merged in ascending
\* worker-index order 0, 1, ..., N-1.
C12_MergeAscending ==
  (work.pc = "idle" /\ Len(work.merged) = work.T)
    => work.merged = [k \in 1..work.T |-> k - 1]

\* C12 as amended: in every interleaving the partial command lists are
\* collected, and merged, in descending worker-index order N-1, ..., 1, 0,
\* whatever the order in which the workers finish.
C12_MergeDescending ==
  /\ \A k \in 1..Len(work.command_buffers) : work.command_buffers[k] = work.T - k
  /\ \A k \in 1..Len(work.merged) : work.merged[k] = work.T - k
  /\ work.submitted = work.tick /\ work.tick > 0 => Len(work.merged) = work.T

\* two workers merged and submitted
C12_Witness ==
  /\ work.T = 2
  /\ work.pc = "idle"
  /\ work.submitted = work.tick
  /\ work.merged = <<1, 0>>

\* worker 0 has already returned while worker 1, which is joined first, runs
C12_WitnessFinishOrder ==
  /\ work.pc = "draw_join"
  /\ work.handles = <<0, 1>>
  /\ \E t \in work.threads : t.i = 0 /\ t.phase = "draw" /\ t.state = "ok" /\ ~t.detached
  /\ \E t \in work.threads : t.i = 1 /\ t.phase = "draw" /\ t.state = "running"

\* C13: join-all barrier.  No thread of a phase runs on once the phase has
\* returned: no JoinHandle is dropped while its thread is running.
C13_JoinAllBarrier ==
  \A t \in work.threads : ~t.detached

\* C18: no partial commit.  A tick submits only when every draw worker of
\* the tick was joined and returned Ok; when a worker returned Err the tick
\* submits nothing and leaves the in-flight token as it was.
C18_NoPartialCommit ==
  /\ (work.tick > 0 /\ work.submitted = work.tick) =>
       /\ Len(work.joined) = work.T
       /\ {work.joined[k].i : k \in 1..Len(work.joined)} = 0..(work.T - 1)
       /\ \A k \in 1..Len(work.joined) : work.joined[k].state = "ok"
       /\ ~\E t \in work.threads : t.tick = work.tick /\ t.phase = "draw"
  /\ (\E k \in 1..Len(work.joined) : work.joined[k].state = "err") =>
       /\ work.submitted # work.tick
       /\ work.token = work.token_before
       /\ work.merged = <<>>

\* a draw worker returned Err after another draw worker of the tick was joined
C18_Witness ==
  /\ work.pc = "idle"
  /\ work.acquire = "Some"
  /\ Len(work.joined) = 2
  /\ work.joined[1].state = "ok"
  /\ work.joined[2].state = "err"
  /\ work.tick = 2
  /\ work.submitted = 1

\* C20: uncontended per-object locks.  No thread is at the lock of an object
\* whose Mutex another thread holds.
C20_UncontendedLocks ==
  \A t \in work.threads : \A u \in work.threads :
    (t.holding /\ u # t /\ u.state = "running" /\ u.pos < u.hi) => u.pos # t.pos

\* ---- the scene manager ----

\* C11: scene ids are validated at construction.  A SceneManager is
\* constructed only when the entry point and every id its scenes can name
\* in a Push or Change are registered, and no call of new or frame_advanced
\* ends in the panic of a lookup of an unregistered id.
C11_SceneIdsValidatedAtConstruction ==
  /\ scene.status = "ok" => scene.targets \subseteq Registered
  /\ ~(scene.op = "frame_advanced" /\ scene.result = "panic_unregistered")

\* the positions in the call log of the last call at which `op` was called
CallsOf(op) == {k \in 1..Len(scene.calls) : scene.calls[k].op = op}
\* the transition of the last frame_advanced ran to its end: no lookup
\* panicked and neither the exit nor the enter it called returned Err
TransitionDone ==
  /\ scene.result \in {"Ok", "Err"}
  /\ CallsOf("exit") # {} => scene.oks.exit
  /\ CallsOf("enter") # {} => scene.oks.enter

\* C21: per-tick sequencing.  In a frame_advanced call get_request is read
\* exactly once, first of all calls and from the scene on top of the stack
\* when the call began; at most one exit and at most one enter follow (none
\* when there is no request); when the transition has run to its end update
\* is called exactly once, on the scene then on top of the stack, and draw
\* exactly once right after it on the same scene when update returned Ok and
\* not at all when update returned Err.
C21_PerTickSequencing ==
  scene.op = "frame_advanced" =>
    LET c == scene.calls
        n == Len(c)
    IN
    /\ n >= 1 /\ c[1] = Call("get_request", back(scene.before))
    /\ CallsOf("get_request") = {1}
    /\ Cardinality(CallsOf("exit")) <= 1 /\ Cardinality(CallsOf("enter")) <= 1
    /\ scene.request = NoRequest =>
         (CallsOf("exit") = {} /\ CallsOf("enter") = {} /\ scene.stack = scene.before)
    /\ \A k \in CallsOf("exit") \cup CallsOf("enter") :
         \A j \in CallsOf("update") \cup CallsOf("draw") : k < j
    /\ \A k \in CallsOf("update") \cup CallsOf("draw") : c[k].id = back(scene.stack)
    /\ IF TransitionDone
       THEN /\ Cardinality(CallsOf("update")) = 1
            /\ IF scene.oks.update
               THEN CallsOf("draw") = {n} /\ CallsOf("update") = {n - 1}
               ELSE CallsOf("draw") = {} /\ CallsOf("update") = {n}
       ELSE CallsOf("update") = {} /\ CallsOf("draw") = {}
    /\ scene.result = "Ok" <=>
         (TransitionDone /\ scene.oks.update /\ scene.oks.draw)

\* a tick that pushed a scene and whose update on the pushed scene failed
C21_Witness ==
  /\ scene.op = "frame_advanced"
  /\ scene.request = [kind |-> "Push", id |-> "S2"]
  /\ scene.before = <<"S1">>
  /\ scene.calls = <<Call("get_request", "S1"), Call("enter", "S2"), Call("update", "S2")>>
  /\ scene.result = "Err"

\* C22: Pop transition.  In a tick whose request is Pop, exit is called
\* exactly once, on the scene that was on top, and enter is not called; when
\* that exit returned Ok and a scene was directly below, the stack is the
\* one before without its top entry, the scene that was directly below gets
\* this tick's update (and draw, when update returned Ok), and a pause or
\* resume call that follows the tick goes to that scene.
C22_PopTransition ==
  [][/\ (scene'.op = "frame_advanced" /\ scene'.request.kind = "Pop" /\ scene' # scene)
          => LET c == scene'.calls
                 b == scene'.before
             IN
             /\ b = scene.stack
             /\ Len(c) >= 2 /\ c[2] = Call("exit", back(b))
             /\ {k \in 1..Len(c) : c[k].op = "exit"} = {2}
             /\ {k \in 1..Len(c) : c[k].op = "enter"} = {}
             /\ (scene'.oks.exit /\ Len(b) >= 2) =>
                  /\ scene'.status = "ok"
                  /\ scene'.stack = SubSeq(b, 1, Len(b) - 1)
                  /\ Len(scene'.stack) = Len(b) - 1
                  /\ Len(c) >= 3 /\ c[3] = Call("update", b[Len(b) - 1])
                  /\ scene'.oks.update => (Len(c) = 4 /\ c[4] = Call("draw", b[Len(b) - 1]))
     /\ (/\ scene.op = "frame_advanced" /\ scene.request.kind = "Pop"
         /\ scene.oks.exit /\ Len(scene.before) >= 2
         /\ scene'.op \in {"pause", "resume"})
          => scene'.calls = <<Call(scene'.op, scene.before[Len(scene.before) - 1])>>
    ]_vars

\* S2, pushed over S1, has asked for Pop: S1 is updated and drawn
C22_Witness ==
  /\ scene.op = "frame_advanced"
  /\ scene.request.kind = "Pop"
  /\ scene.before = <<"S1", "S2">>
  /\ scene.stack = <<"S1">>
  /\ scene.calls = <<Call("get_request", "S2"), Call("exit", "S2"),
                     Call("update", "S1"), Call("draw", "S1")>>
  /\ scene.result = "Ok"
  /\ scene.ticks < MaxSceneTicks

\* C23: Push transition.  In a tick whose request is Push{id}, id naming a
\* registered scene, enter is called exactly once, on scene id, exit is not
\* called, and the stack is the one before with id added on top.
C23_PushTransition ==
  (/\ scene.op = "frame_advanced"
   /\ scene.request.kind = "Push"
   /\ scene.request.id \in Registered)
  => /\ Len(scene.calls) >= 2
     /\ scene.calls[2] = Call("enter", scene.request.id)
     /\ CallsOf("enter") = {2}
     /\ CallsOf("exit") = {}
     /\ Len(scene.stack) = Len(scene.before) + 1
     /\ back(scene.stack) = scene.request.id
     /\ SubSeq(scene.stack, 1, Len(scene.before)) = scene.before
     /\ scene.stack[Len(scene.stack) - 1] = back(scene.before)

\* S2 pushed over S1, then updated and drawn
C23_Witness ==
  /\ scene.op = "frame_advanced"
  /\ scene.request = [kind |-> "Push", id |-> "S2"]
  /\ scene.before = <<"S1">>
  /\ scene.stack = <<"S1", "S2">>
  /\ scene.calls = <<Call("get_request", "S1"), Call("enter", "S2"),
                     Call("update", "S2"), Call("draw", "S2")>>
  /\ scene.result = "Ok"

\* C24: Change transition.  In a tick whose request is Change{id}, id naming
\* a registered scene, exit is called exactly once, on the scene that was on
\* top, and, when it returned Ok, enter is called exactly once after it, on
\* scene id; the stack keeps its depth and differs from the one before in
\* its top entry only, which is id.
C24_ChangeTransition ==
  (/\ scene.op = "frame_advanced"
   /\ scene.request.kind = "Change"
   /\ scene.request.id \in Registered)
  => /\ Len(scene.calls) >= 2
     /\ scene.calls[2] = Call("exit", back(scene.before))
     /\ CallsOf("exit") = {2}
     /\ Len(scene.stack) = Len(scene.before)
     /\ \A k \in 1..(Len(scene.before) - 1) : scene.stack[k] = scene.before[k]
     /\ IF scene.oks.exit
        THEN /\ Len(scene.calls) >= 3
             /\ scene.calls[3] = Call("enter", scene.request.id)
             /\ CallsOf("enter") = {3}
             /\ back(scene.stack) = scene.request.id
        ELSE CallsOf("enter") = {}

\* S2, pushed over S1, has asked for Change{S1}
C24_Witness ==
  /\ scene.op = "frame_advanced"
  /\ scene.request = [kind |-> "Change", id |-> "S1"]
  /\ scene.before = <<"S1", "S2">>
  /\ scene.stack = <<"S1", "S1">>
  /\ scene.calls = <<Call("get_request", "S2"), Call("exit", "S2"), Call("enter", "S1"),
                     Call("update", "S1"), Call("draw", "S1")>>
  /\ scene.result = "Ok"

\* C27: the scene stack never empties.  Once new has returned Ok the stack
\* holds at least one id, and no call ends in the panic of get_current_id.
C27_StackNeverEmpty ==
  /\ scene.status = "ok" => scene.stack # <<>>
  /\ scene.result # "panic_empty"

\* C28: a failed transition leaves the stack unchanged.  When the exit or
\* the enter called by the transition of a frame_advanced returned Err, the
\* call returns Err and the stack is the one before the call.
C28_FailedTransitionKeepsStack ==
  (/\ scene.op = "frame_advanced"
   /\ \/ CallsOf("exit") # {} /\ ~scene.oks.exit
      \/ CallsOf("enter") # {} /\ ~scene.oks.enter)
  => (scene.result = "Err" /\ scene.stack = scene.before)

\* ---- the partition of the object pool ----

\* C3: partition coverage.  Once a phase has spawned its workers, every
\* index of [0, S) lies in the range of exactly one worker of that phase.
C3_PartitionCoverage ==
  /\ part.phase \in {"draw", "done"} =>
       \A idx \in 0..(part.S - 1) : Cardinality(WorkersOf(part.update, idx)) = 1
  /\ part.phase = "done" =>
       \A idx \in 0..(part.S - 1) : Cardinality(WorkersOf(part.draw, idx)) = 1

\* C19: disjoint partitions.  In each phase no index lies in the ranges of
\* two workers, and every index of a range is below S.
C19_DisjointPartitions ==
  /\ \A idx \in 0..part.S :
       /\ Cardinality(WorkersOf(part.update, idx)) <= 1
       /\ Cardinality(WorkersOf(part.draw, idx)) <= 1
  /\ \A w \in 1..Len(part.update) : part.update[w].lo <= part.update[w].hi /\ part.update[w].hi <= part.S
  /\ \A w \in 1..Len(part.draw) : part.draw[w].lo <= part.draw[w].hi /\ part.draw[w].hi <= part.S

\* the pool of MAX_OBJECTS_NUM objects handed to three workers in both phases
C19_Witness ==
  /\ part.phase = "done"
  /\ part.S = MAX_OBJECTS_NUM
  /\ part.T = 3
  /\ Len(part.draw) = 3

\* ---- the scene graph ----
\* C4: forest acyclicity.  A Model is constructed only from an acyclic node
\* list, and no walk of a constructed Model recurses without end.
C4_ForestAcyclicity ==
  /\ m_status = "ok" => ~HasCycle(nodes)
  /\ m_status # "overflow"

\* C5: reference integrity.  In a constructed Model the root id and every
\* parent, sibling and child id name a node, and no walk panics in get_index.
C5_ReferenceIntegrity ==
  /\ m_status = "ok" =>
       /\ Resolves(nodes, root_id)
       /\ \A k \in 1..Len(nodes) :
            \A x \in {nodes[k].parent, nodes[k].sibling, nodes[k].child} :
              x = None \/ Resolves(nodes, x)
  /\ m_status # "panic"

\* C25: traversal order.  A walk of update_transform that returns on a
\* forest-shaped Model calls ModelNode::update_transform once on every node
\* reachable from the start node and on no other; the calls are in
\* depth-first pre-order, every node followed at once by the nodes reachable
\* from it, its sibling's first and its child's after them; the sibling is
\* handed the parent matrix the node itself was handed and the child the
\* world matrix the node has just computed, so that a node is never visited
\* before the node whose child it is.
C25_TraversalOrder ==
  (m_status = "ok" /\ last.op = "update_transform" /\ Forest(nodes)) =>
    LET v == last.visits
        n == Len(v)
        Size(id) == Cardinality(Reached(nodes, id))
    IN
    /\ n = Size(last.id)
    /\ {v[k].id : k \in 1..n} = Reached(nodes, last.id)
    /\ v[1].id = last.id /\ v[1].parent = last.parent
    /\ \A k \in 1..n :
         LET nd == nodes[id_index_map[v[k].id]] IN
         /\ v[k].world = nd.world_matrix
         /\ {j \in 1..n : v[j].id \in Reached(nodes, v[k].id)} = k..(k + Size(v[k].id) - 1)
         /\ nd.sibling # None =>
              (v[k + 1].id = nd.sibling /\ v[k + 1].parent = v[k].parent)
         /\ nd.child # None =>
              LET j == k + 1 + (IF nd.sibling # None THEN Size(nd.sibling) ELSE 0)
              IN  v[j].id = nd.child /\ v[j].parent = v[k].world

\* a walk from A, which has both a sibling (B) and a child (R): A, B, R
C25_Witness ==
  /\ m_status = "ok"
  /\ last.op = "update_transform" /\ last.id = "A" /\ last.parent = RotZ90
  /\ nodes[2].sibling = "B" /\ nodes[2].child = "R"
  /\ [k \in 1..Len(last.visits) |-> last.visits[k].id] = <<"A", "B", "R">>
  /\ last.visits[2].parent = RotZ90
  /\ last.visits[3].parent = mul_matrix4x4(TransX, RotZ90)

\* the world matrix of every node that is somebody's child, directly or
\* along siblings, is its transform composed on that node's world matrix
WorldsConsistent(ns, ids) ==
  \A k \in 1..Len(ns) :
    (ns[k].id \in ids /\ ParentBasis(ns, ns[k].id) # NoneMat) =>
      ns[k].world_matrix = mul_matrix4x4(ns[k].transform, ParentBasis(ns, ns[k].id))

\* the nodes below node id: those a walk from its child comes to
Descendants(ns, id) ==
  LET c == ns[IndexMapOf(ns)[id]].child IN IF c = None THEN {} ELSE Reached(ns, c)

\* C26: local mutators keep world transforms consistent.  On a forest-shaped
\* Model whose world matrices are consistent, a local mutator called on node
\* id leaves the world matrix of id equal to its new transform composed on
\* the world matrix of its parent, and the world matrix of every descendant
\* of id equal to its transform composed on its parent's world matrix.
C26_LocalMutatorsConsistent ==
  [][(/\ last'.op \in Mutators
      /\ last'.mutations = last.mutations + 1
      /\ last'.status = "ok"
      /\ WorldsConsistent(nodes, NodeIds))
     => WorldsConsistent(nodes', {last'.id} \cup Descendants(nodes', last'.id))]_vars

\* C29: frame of update_transform.  A call of Model::update_transform, with
\* any node id and any parent matrix (None included), on any constructed
\* Model, leaves the root id, the index map and every node's id, transform
\* and parent, sibling and child links as they were, and the world matrix
\* of every node that is not reachable from id along sibling and child
\* links as it was.
C29_UpdateTransformFrame ==
  [][(m_status = "ok" /\ last'.op = "update_transform")
     => (/\ root_id' = root_id
         /\ id_index_map' = id_index_map
         /\ Len(nodes') = Len(nodes)
         /\ \A k \in 1..Len(nodes) :
              /\ nodes'[k].id = nodes[k].id
              /\ nodes'[k].transform = nodes[k].transform
              /\ nodes'[k].parent = nodes[k].parent
              /\ nodes'[k].sibling = nodes[k].sibling
              /\ nodes'[k].child = nodes[k].child
              /\ nodes[k].id \notin Reached(nodes, last'.id) =>
                   nodes'[k].world_matrix = nodes[k].world_matrix)]_vars

\* update_transform(A, quarter turn) where A is the sibling of B, the child
\* of R: A is recomputed, its parent R and its preceding sibling B are not
C29_Witness ==
  /\ m_status = "ok"
  /\ last.op = "update_transform" /\ last.id = "A" /\ last.parent = RotZ90
  /\ nodes[1].child = "B" /\ nodes[3].sibling = "A"
  /\ nodes[2].world_matrix = mul_matrix4x4(TransX, RotZ90)
  /\ nodes[1].world_matrix = TransZ /\ nodes[3].world_matrix = TransZ

\* C6: transform composition law.  After update_transform(id, Some(M)) has
\* returned on a forest-shaped Model, every node the walk reached has
\* world_matrix = transform * (its parent's world matrix), M standing for
\* the parent of the start node and of its siblings.
C6_CompositionLaw ==
  (/\ m_status = "ok"
   /\ last.op = "update_transform"
   /\ last.parent # NoneMat
   /\ Forest(nodes))
  => \A k \in 1..Len(nodes) :
       nodes[k].id \in Reached(nodes, last.id) =>
         nodes[k].world_matrix =
           mul_matrix4x4(nodes[k].transform,
                         ParentWorld(nodes, last.id, last.parent, nodes[k].id))

\* root R (identity) with child A (translation (1,0,0)) whose sibling is B
\* (translation (0,1,0)), after update_transform(R, identity)
C6_Witness ==
  /\ m_status = "ok"
  /\ last.op = "update_transform" /\ last.id = "R" /\ last.parent = IDENTITY
  /\ nodes[1].child = "A" /\ nodes[2].sibling = "B"
  /\ get_position(nodes[2].world_matrix) = <<1, 0, 0>>
  /\ get_position(nodes[3].world_matrix) = <<0, 1, 0>>

\* C7: idempotence.  A call of update_transform that repeats the arguments
\* of the call before it, which returned, returns too and leaves every node
\* as it was.
C7_Idempotent ==
  [][(/\ last.op = "update_transform"
      /\ last.status = "ok"
      /\ last'.op = "update_transform"
      /\ last'.id = last.id
      /\ last'.parent = last.parent)
     => (last'.status = "ok" /\ nodes' = nodes)]_vars

\* a call repeated on a chain of three nodes under a quarter turn
C7_Witness ==
  /\ m_status = "ok"
  /\ last.op = "update_transform" /\ last.repeated /\ last.parent = RotZ90
  /\ last.id = "R"
  /\ Reached(nodes, "R") = NodeIds

====
